---- MODULE Spec2Model ----
(***************************************************************************)
(* worldbank_scraper.py: one run of main() reads the links of the          *)
(* persisted feed, scrapes the rendered careers page, keeps the jobs whose *)
(* link is not in the feed, and rewrites the feed with them.               *)
(*                                                                         *)
(* Texts are sequences of one-character strings, so that strip(), lower(), *)
(* startswith() and substring tests are computed, not assumed.  An         *)
(* optional value is <<>> (None) or <<v>>.                                 *)
(***************************************************************************)
EXTENDS Integers, Sequences, FiniteSets, TLC

VARIABLES
    feed,            \* the file worldbank_jobs.xml
    site,            \* the pages the careers site may render in this behaviour
    pc,              \* position of main()
    existing_links,  \* main: existing_links
    soup,            \* scrape_worldbank_jobs: the parsed page, <<>> before render
    job_elements,    \* scrape_worldbank_jobs: job_elements
    strategies_run,  \* the location strategies evaluated, in order
    all_jobs,        \* main: all_jobs (scrape_worldbank_jobs: jobs)
    new_jobs,        \* main: new_jobs
    xml,             \* generate_rss_feed: the document built in memory
    errors,          \* what was raised or caught so far in this run
    prior,           \* history: the feed as it was when this run started
    recording,       \* whether the two histories below are kept in this behaviour
    published,       \* history: links of the feeds written by earlier runs
    prev_ok          \* history: the previous run scraped and completed without error

vars == <<feed, site, pc, existing_links, soup, job_elements, strategies_run,
          all_jobs, new_jobs, xml, errors, prior, recording, published, prev_ok>>

----------------------------------------------------------------------------
(* Bounds of the model *)

\* top-level fragments of a rendered page drawn from Cards
MaxCards == 2

----------------------------------------------------------------------------
(* Python str operations used by the scraper *)

Min(a, b) == IF a < b THEN a ELSE b

IsSpace(c) == c \in {" ", "\t", "\n", "\r", "\f"}

RECURSIVE LStrip(_)
LStrip(s) == IF Len(s) > 0 /\ IsSpace(s[1]) THEN LStrip(Tail(s)) ELSE s

RECURSIVE RStrip(_)
RStrip(s) == IF Len(s) > 0 /\ IsSpace(s[Len(s)]) THEN RStrip(SubSeq(s, 1, Len(s) - 1)) ELSE s

\* str.strip()
Strip(s) == RStrip(LStrip(s))

UpperCase == <<"A", "B", "C", "D", "E", "F", "G", "H", "I", "J", "K", "L", "M", "N", "O", "P", "Q",
        "R", "S", "T", "U", "V", "W", "X", "Y", "Z">>

LowerCase == <<"a", "b", "c", "d", "e", "f", "g", "h", "i", "j", "k", "l", "m", "n", "o", "p", "q",
        "r", "s", "t", "u", "v", "w", "x", "y", "z">>

LowerChar(c) ==
    IF \E i \in 1..Len(UpperCase) : UpperCase[i] = c
    THEN LowerCase[CHOOSE i \in 1..Len(UpperCase) : UpperCase[i] = c]
    ELSE c

\* str.lower()
Lower(s) == [i \in 1..Len(s) |-> LowerChar(s[i])]

\* str.startswith(p)
StartsWith(s, p) == Len(s) >= Len(p) /\ SubSeq(s, 1, Len(p)) = p

\* k in s
Contains(s, k) == \E i \in 1..(Len(s) - Len(k) + 1) : SubSeq(s, i, i + Len(k) - 1) = k

\* "".join(parts), by halves
RECURSIVE Join(_)
Join(ss) ==
    IF Len(ss) = 0 THEN <<>>
    ELSE IF Len(ss) = 1 THEN ss[1]
    ELSE LET half == Len(ss) \div 2
         IN  Join(SubSeq(ss, 1, half)) \o Join(SubSeq(ss, half + 1, Len(ss)))

\* " ".join(parts)
RECURSIVE JoinSpace(_)
JoinSpace(ss) ==
    IF ss = <<>> THEN <<>>
    ELSE IF Len(ss) = 1 THEN ss[1]
    ELSE ss[1] \o <<" ">> \o JoinSpace(Tail(ss))

----------------------------------------------------------------------------
(* The parsed page (BeautifulSoup): a tree of tags and text nodes *)

TextNode(t) == [name |-> "#text", class |-> <<>>, href |-> <<>>, kids |-> <<>>, text |-> t]

Tag(name, class, href, kids) ==
    [name |-> name, class |-> class, href |-> href, kids |-> kids, text |-> <<>>]

\* the nodes of a forest in document order
RECURSIVE Preorder(_)
Preorder(ns) == Join([i \in 1..Len(ns) |-> <<ns[i]>> \o Preorder(ns[i].kids)])

descendants(n) == Preorder(n.kids)

\* tag.find(...) after the filter: the first match in document order, or None
First(matches) == IF matches = <<>> THEN <<>> ELSE <<matches[1]>>

StrippedText(n) == Strip(n.text)

NonEmpty(s) == Len(s) > 0

IsText(n) == n.name = "#text"

\* node.get_text(strip=True): the stripped, non-empty strings under the node, joined
get_text(n) ==
    IF IsText(n) THEN Strip(n.text)
    ELSE LET strings == SelectSeq(descendants(n), IsText)
             stripped == [i \in 1..Len(strings) |-> StrippedText(strings[i])]
         IN  Join(SelectSeq(stripped, NonEmpty))

\* class_=lambda x: x and kw in str(x).lower()
ClassHas(n, kw) == n.class # <<>> /\ Contains(Lower(n.class[1]), kw)

----------------------------------------------------------------------------
(* scrape_worldbank_jobs: locating the candidates *)

Origin == <<"h", "t", "t", "p", "s", ":", "/", "/", "w", "o", "r", "l", "d", "b", "a", "n", "k",
        "g", "r", "o", "u", "p", ".", "c", "s", "o", "d", ".", "c", "o", "m">>

CareersBase == <<"h", "t", "t", "p", "s", ":", "/", "/", "w", "o", "r", "l", "d", "b", "a", "n",
        "k", "g", "r", "o", "u", "p", ".", "c", "s", "o", "d", ".", "c", "o", "m", "/", "u", "x", "/", "a", "t", "s", "/", "c", "a", "r", "e", "e", "r", "s", "i", "t", "e", "/", "1", "/">>

Strategy1Keywords == {<<"j", "o", "b", "-", "c", "a", "r", "d">>, <<"j", "o", "b", "-", "i", "t",
        "e", "m">>, <<"p", "o", "s", "i", "t", "i", "o", "n">>, <<"v", "a", "c", "a", "n", "c",
        "y">>, <<"r", "e", "q", "u", "i", "s", "i", "t", "i", "o", "n">>}

\* the [:50] of the candidate loop
CandidateCap == 50

IsStrategy1(n) ==
    /\ n.name \in {"div", "article", "li"}
    /\ \E kw \in Strategy1Keywords : ClassHas(n, kw)

IsStrategy2Link(n) ==
    /\ n.name = "a"
    /\ n.href # <<>>
    /\ Contains(Lower(n.href[1]), <<"r", "e", "q", "u", "i", "s", "i", "t", "i", "o", "n">>)

IsTitleTag(n) == n.name \in {"h2", "h3", "h4", "a"}

IsHeading(n) == n.name \in {"h2", "h3", "h4"}

IsAnchor(n) == n.name = "a"

\* find('a', href=True)
IsAnchorWithHref(n) == n.name = "a" /\ n.href # <<>>

IsStrategy3(n) ==
    /\ n.name \in {"div", "article"}
    /\ First(SelectSeq(descendants(n), IsTitleTag)) # <<>>
    /\ First(SelectSeq(descendants(n), IsAnchorWithHref)) # <<>>

strategy1(page) == SelectSeq(descendants(page), IsStrategy1)

strategy2(page) ==
    LET job_links == SelectSeq(descendants(page), IsStrategy2Link)
    IN  SelectSeq(job_links, LAMBDA link : Len(get_text(link)) > 5)

strategy3(page) == SelectSeq(descendants(page), IsStrategy3)

\* a locator that appends the results of the strategies instead of falling back
locate_merging(page) ==
    [elements |-> strategy1(page) \o strategy2(page) \o strategy3(page),
     evaluated |-> <<1, 2, 3>>]

\* job_elements after the three "if not job_elements" steps, and the strategies evaluated
locate(page) ==
    LET e1 == strategy1(page)
        e2 == IF e1 = <<>> THEN strategy2(page) ELSE e1
        e3 == IF e2 = <<>> THEN strategy3(page) ELSE e2
    IN  [elements |-> e3,
         evaluated |-> <<1>> \o (IF e1 = <<>> THEN <<2>> ELSE <<>>)
                             \o (IF e2 = <<>> THEN <<3>> ELSE <<>>)]

----------------------------------------------------------------------------
(* scrape_worldbank_jobs: one candidate to a job record, or a skip *)

normalize_link(href) ==
    IF StartsWith(href, <<"h", "t", "t", "p">>) THEN href
    ELSE IF StartsWith(href, <<"/">>) THEN Origin \o href
    ELSE CareersBase \o href

\* job_data['link'], or None where the loop continues
extract_link(element) ==
    IF element.name = "a" /\ element.href # <<>> /\ element.href[1] # <<>>
    THEN <<normalize_link(element.href[1])>>
    ELSE LET link_elem == First(SelectSeq(descendants(element), IsAnchorWithHref))
         IN  IF link_elem # <<>> THEN <<normalize_link(link_elem[1].href[1])>> ELSE <<>>

IsTitleClassed(n) == IsTitleTag(n) /\ ClassHas(n, <<"t", "i", "t", "l", "e">>)

extract_title(element) ==
    IF element.name = "a" THEN get_text(element)
    ELSE LET t1 == First(SelectSeq(descendants(element), IsTitleClassed))
             t2 == IF t1 = <<>> THEN First(SelectSeq(descendants(element), IsHeading)) ELSE t1
             t3 == IF t2 = <<>> THEN First(SelectSeq(descendants(element), IsAnchor)) ELSE t2
         IN  IF t3 # <<>> THEN get_text(t3[1])
             ELSE SubSeq(get_text(element), 1, Min(100, Len(get_text(element))))

skip_keywords ==
    {<<"s", "e", "a", "r", "c", "h">>, <<"f", "i", "l", "t", "e", "r">>, <<"s", "o", "r", "t">>,
        <<"l", "o", "g", "i", "n">>, <<"s", "i", "g", "n", " ", "i", "n">>, <<"h", "o", "m", "e">>,
        <<"a", "b", "o", "u", "t">>, <<"c", "o", "n", "t", "a", "c", "t">>}

MinTitleLen == 5

\* title tests that forget .lower()
title_ok_case_sensitive(title) ==
    /\ Len(title) > 0
    /\ ~(Len(title) < MinTitleLen)
    /\ ~(\E keyword \in skip_keywords : Contains(title, keyword))

\* the two "continue" tests on the title
title_ok(title) ==
    /\ Len(title) > 0
    /\ ~(Len(title) < MinTitleLen)
    /\ ~(\E keyword \in skip_keywords : Contains(Lower(title), keyword))

IsLocationClassed(n) == n.name \in {"span", "div", "p"} /\ ClassHas(n, <<"l", "o", "c", "a", "t",
        "i", "o", "n">>)

LocationCues == {<<"W", "a", "s", "h", "i", "n", "g", "t", "o", "n">>, <<"D", "C">>, <<"R", "e",
        "m", "o", "t", "e">>, <<"L", "o", "c", "a", "t", "i", "o", "n", ":">>}

IsLocationString(n) == IsText(n) /\ \E loc \in LocationCues : Contains(n.text, loc)

extract_location(element) ==
    LET l1 == First(SelectSeq(descendants(element), IsLocationClassed))
        l2 == IF l1 = <<>> THEN First(SelectSeq(descendants(element), IsLocationString)) ELSE l1
    IN  IF l2 # <<>> THEN get_text(l2[1]) ELSE <<"W", "a", "s", "h", "i", "n", "g", "t", "o", "n",
        ",", " ", "D", "C">>

IsDepartmentClassed(n) == n.name \in {"span", "div", "p"} /\ ClassHas(n, <<"d", "e", "p", "a", "r",
        "t", "m", "e", "n", "t">>)

extract_department(element) ==
    LET dept_elem == First(SelectSeq(descendants(element), IsDepartmentClassed))
    IN  IF dept_elem # <<>> THEN get_text(dept_elem[1]) ELSE <<>>

build_description(title, department, location) ==
    JoinSpace(<<<<"W", "o", "r", "l", "d", " ", "B", "a", "n", "k", " ", "G", "r", "o", "u", "p",
        " ", "h", "a", "s", " ", "a", " ", "v", "a", "c", "a", "n", "c", "y", " ", "f", "o", "r", " ", "t", "h", "e", " ", "p", "o", "s", "i", "t", "i", "o", "n", " ", "o", "f", " ">> \o title>>
              \o (IF Len(department) > 0 THEN <<<<"i", "n", " ", "t", "h", "e",
        " ">> \o department>> ELSE <<>>)
              \o <<<<"L", "o", "c", "a", "t", "i", "o", "n", ":", " ">> \o location>>) \o <<".">>

\* one pass of the loop body: <<job_data>> when appended, <<>> when skipped
process_element(element) ==
    LET link == extract_link(element)
        title == extract_title(element)
    IN  IF link = <<>> THEN <<>>
        ELSE IF ~title_ok(title) THEN <<>>
        ELSE IF Len(title) > 0 /\ Len(link[1]) > 0
             THEN <<[title |-> title,
                     link |-> link[1],
                     location |-> extract_location(element),
                     department |-> extract_department(element),
                     description |-> build_description(title, extract_department(element),
                                                       extract_location(element))]>>
             ELSE <<>>

\* for element in job_elements[:50]
candidates(elements) == SubSeq(elements, 1, Min(CandidateCap, Len(elements)))

\* jobs after the loop: the records appended, in the order of the candidates
process_all(elements) == Join([i \in 1..Len(elements) |-> process_element(elements[i])])

----------------------------------------------------------------------------
(* The feed file and its codec *)

Absent == [kind |-> "absent", items |-> <<>>]

\* a file of zero bytes, as open(output_file, 'w') leaves it
Truncated == [kind |-> "empty", items |-> <<>>]

\* a file holding a prefix of a document
Partial == [kind |-> "partial", items |-> <<>>]

\* a complete RSS document: per item the texts of title, link and description
\* (guid is a function of the link text, pubDate and source are fixed per run)
Document(items) == [kind |-> "doc", items |-> items]

\* for job in jobs: one item each, in order
to_items(jobs) ==
    Join([i \in 1..Len(jobs) |-> <<[title |-> jobs[i].title,
                                    link |-> jobs[i].link,
                                    description |-> jobs[i].description]>>])

\* characters expat rejects in character data ("not well-formed (invalid token)")
IsXmlChar(c) == c \notin {"\f"}

IsXmlText(s) == {i \in 1..Len(s) : ~IsXmlChar(s[i])} = {}

\* minidom.parseString(ET.tostring(rss)) does not raise
serializable(items) ==
    {i \in 1..Len(items) : ~(/\ IsXmlText(items[i].title)
                              /\ IsXmlText(items[i].link)
                              /\ IsXmlText(items[i].description))} = {}

item_links(items) == {items[i].link : i \in 1..Len(items)}

get_existing_job_links(file) ==
    IF file.kind = "absent" THEN {}
    ELSE IF file.kind # "doc" THEN {}
    ELSE {Strip(file.items[i].link) : i \in {j \in 1..Len(file.items) : Len(file.items[j].link) > 0}}

\* job.get('link') not in existing_links
is_new(job, links) == job.link \notin links

filter_new(jobs, links) == SelectSeq(jobs, LAMBDA job : is_new(job, links))

----------------------------------------------------------------------------
(* Rendered pages *)

\* a card whose class hints at a job: heading title, site-relative link
CardA ==
    Tag("div", <<<<"j", "o", "b", "-", "c", "a", "r", "d">>>>, <<>>,
        <<Tag("h3", <<>>, <<>>, <<TextNode(<<" ", "E", "c", "o", "n", "o", "m", "i", "s", "t", " ",
        "I", "I", " ">>)>>),
          Tag("a", <<>>, <<<<"/", "j", "o", "b", "/", "1">>>>, <<TextNode(<<"A", "p", "p", "l",
        "y">>)>>)>>)

\* nested class-hinted containers around one absolute link
CardB ==
    Tag("div", <<<<"V", "a", "c", "a", "n", "c", "y", "-", "L", "i", "s", "t">>>>, <<>>,
        <<Tag("li", <<<<"p", "o", "s", "i", "t", "i", "o", "n">>>>, <<>>,
              <<Tag("a", <<<<"j", "o", "b", "-", "t", "i", "t", "l", "e">>>>, <<<<"h", "t", "t",
        "p", ":", "/", "/", "w", "b", ".", "e", "x", "a", "m", "p", "l", "e", "/", "7">>>>,
                    <<TextNode(<<"D", "a", "t", "a", " ", "A", "n", "a", "l", "y", "s", "t">>)>>),
                Tag("span", <<<<"d", "e", "p", "a", "r", "t", "m", "e", "n", "t">>>>, <<>>,
        <<TextNode(<<"I", "T">>)>>)>>)>>)

\* a bare requisition link, relative to the listing path, with a trailing blank
CardC ==
    Tag("a", <<>>, <<<<"R", "e", "q", "u", "i", "s", "i", "t", "i", "o", "n", "/", "5", " ">>>>,
        <<TextNode(<<"S", "e", "n", "i", "o", "r", " ", "E", "c", "o", "n", "o", "m", "i", "s",
        "t">>)>>)

\* unclassed containers: a navigation block and a titled link
CardD ==
    Tag("section", <<>>, <<>>,
        <<Tag("div", <<>>, <<>>,
              <<Tag("h2", <<>>, <<>>, <<TextNode(<<"S", "e", "a", "r", "c", "h", " ", "J", "o",
        "b", "s">>)>>),
                Tag("a", <<>>, <<<<"/", "s", "e", "a", "r", "c", "h">>>>, <<TextNode(<<"G",
        "o">>)>>)>>),
          Tag("article", <<>>, <<>>,
              <<Tag("a", <<>>, <<<<"/", "j", "o", "b", "/", "3">>>>, <<TextNode(<<"W", "a", "t",
        "e", "r", " ", "S", "p", "e", "c", "i", "a", "l", "i", "s", "t">>)>>)>>)>>)

\* class-hinted items the loop skips: no link, short title, stoplist title
CardE ==
    Tag("ul", <<>>, <<>>,
        <<Tag("li", <<<<"v", "a", "c", "a", "n", "c", "y">>>>, <<>>, <<TextNode(<<"N", "o", " ",
        "l", "i", "n", "k", " ", "h", "e", "r", "e">>)>>),
          Tag("li", <<<<"j", "o", "b", "-", "i", "t", "e", "m">>>>, <<>>,
              <<Tag("a", <<>>, <<<<"/", "j", "o", "b", "/", "4">>>>, <<TextNode(<<"J", "o", "b",
        "s">>)>>)>>),
          Tag("li", <<<<"r", "e", "q", "u", "i", "s", "i", "t", "i", "o", "n">>>>, <<>>,
              <<Tag("a", <<>>, <<<<>>>>, <<TextNode(<<"S", "i", "g", "n", " ", "I", "n", " ", "h",
        "e", "r", "e">>)>>)>>)>>)

\* a class-hinted card whose title holds a form feed
CardF ==
    Tag("div", <<<<"j", "o", "b", "-", "i", "t", "e", "m">>>>, <<>>,
        <<Tag("a", <<>>, <<<<"/", "j", "o", "b", "/", "9">>>>, <<TextNode(<<"R", "i", "s", "k",
        "\f", "O", "f", "f", "i", "c", "e", "r">>)>>)>>)

Cards == {CardA, CardB, CardC, CardD, CardE, CardF}

Root(cards) == Tag("[document]", <<>>, <<>>, cards)

\* a page with more class-hinted cards than the loop processes
LongPage == Root([i \in 1..(CandidateCap + 1) |-> CardA])

Pages == {Root(cards) : cards \in UNION {[1..n -> Cards] : n \in 0..MaxCards}} \cup {LongPage}

----------------------------------------------------------------------------
(* main() *)

Init ==
    /\ feed = Absent
    /\ site = Pages
    /\ pc = "idle"
    /\ existing_links = {}
    /\ soup = <<>>
    /\ job_elements = <<>>
    /\ strategies_run = <<>>
    /\ all_jobs = <<>>
    /\ new_jobs = <<>>
    /\ xml = <<>>
    /\ errors = {}
    /\ prior = Absent
    /\ recording = FALSE
    /\ published = {}
    /\ prev_ok = FALSE

\* a run starts: existing_links = get_existing_job_links()
main_get_existing ==
    /\ pc \in {"idle", "done", "raised"}
    /\ existing_links' = get_existing_job_links(feed)
    /\ prior' = feed
    /\ published' = IF recording /\ pc = "done" /\ xml # <<>>
                     THEN published \cup item_links(xml[1])
                     ELSE published
    /\ prev_ok' = (recording /\ pc = "done" /\ errors = {})
    /\ soup' = <<>>
    /\ job_elements' = <<>>
    /\ strategies_run' = <<>>
    /\ all_jobs' = <<>>
    /\ new_jobs' = <<>>
    /\ xml' = <<>>
    /\ errors' = {}
    /\ pc' = "scrape"
    /\ UNCHANGED <<feed, site, recording>>

\* setup_driver() raises: outside the try block, so main() raises
setup_driver_raises ==
    /\ pc = "scrape"
    /\ pc' = "raised"
    /\ errors' = errors \cup {"driver"}
    /\ UNCHANGED <<feed, site, existing_links, soup, job_elements, strategies_run,
                   all_jobs, new_jobs, xml, prior, recording, published, prev_ok>>

\* the page is rendered and parsed, and the candidates are located
render_and_locate ==
    /\ pc = "scrape"
    /\ \E page \in site :
        /\ soup' = <<page>>
        /\ job_elements' = locate(page).elements
        /\ strategies_run' = locate(page).evaluated
    /\ pc' = "located"
    /\ UNCHANGED <<feed, site, existing_links, all_jobs, new_jobs, xml, errors,
                   prior, recording, published, prev_ok>>

\* a render failure that is not caught
render_raises_uncaught ==
    /\ pc = "scrape"
    /\ errors' = errors \cup {"render"}
    /\ pc' = "raised"
    /\ UNCHANGED <<feed, site, existing_links, soup, job_elements, strategies_run,
                   all_jobs, new_jobs, xml, prior, recording, published, prev_ok>>

\* driver.get / execute_script / page_source raises: caught, jobs stays []
render_raises ==
    /\ pc = "scrape"
    /\ all_jobs' = <<>>
    /\ errors' = errors \cup {"render"}
    /\ pc' = "scraped"
    /\ UNCHANGED <<feed, site, existing_links, soup, job_elements, strategies_run,
                   new_jobs, xml, prior, recording, published, prev_ok>>

\* the candidate loop
process_candidates ==
    /\ pc = "located"
    /\ all_jobs' = process_all(candidates(job_elements))
    /\ pc' = "scraped"
    /\ UNCHANGED <<feed, site, existing_links, soup, job_elements, strategies_run,
                   new_jobs, xml, errors, prior, recording, published, prev_ok>>

\* scrape_worldbank_jobs returns; new_jobs = [job for job in all_jobs if ...]
main_filter ==
    /\ pc = "scraped"
    /\ new_jobs' = filter_new(all_jobs, existing_links)
    /\ soup' = <<>>
    /\ job_elements' = <<>>
    /\ strategies_run' = <<>>
    /\ pc' = "filtered"
    /\ UNCHANGED <<feed, site, existing_links, all_jobs, xml, errors,
                   prior, recording, published, prev_ok>>

\* if new_jobs: generate_rss_feed(new_jobs) builds the document in memory
build_new ==
    /\ pc = "filtered"
    /\ new_jobs # <<>>
    /\ serializable(to_items(new_jobs))
    /\ xml' = <<to_items(new_jobs)>>
    /\ pc' = "built"
    /\ UNCHANGED <<feed, site, existing_links, soup, job_elements, strategies_run,
                   all_jobs, new_jobs, errors, prior, recording, published, prev_ok>>

\* minidom.parseString raises before the file is opened
build_raises ==
    /\ pc = "filtered"
    /\ new_jobs # <<>>
    /\ ~serializable(to_items(new_jobs))
    /\ pc' = "raised"
    /\ errors' = errors \cup {"serialize"}
    /\ UNCHANGED <<feed, site, existing_links, soup, job_elements, strategies_run,
                   all_jobs, new_jobs, xml, prior, recording, published, prev_ok>>

\* else branch, the file exists: nothing is written
no_new_keep ==
    /\ pc = "filtered"
    /\ new_jobs = <<>>
    /\ feed.kind # "absent"
    /\ pc' = "done"
    /\ UNCHANGED <<feed, site, existing_links, soup, job_elements, strategies_run,
                   all_jobs, new_jobs, xml, errors, prior, recording, published, prev_ok>>

\* else branch, no file: generate_rss_feed([])
no_new_create ==
    /\ pc = "filtered"
    /\ new_jobs = <<>>
    /\ feed.kind = "absent"
    /\ xml' = << <<>> >>
    /\ pc' = "built"
    /\ UNCHANGED <<feed, site, existing_links, soup, job_elements, strategies_run,
                   all_jobs, new_jobs, errors, prior, recording, published, prev_ok>>

\* with open(output_file, 'w', encoding='utf-8') as f
open_file ==
    /\ pc = "built"
    /\ feed' = Truncated
    /\ pc' = "opened"
    /\ UNCHANGED <<site, existing_links, soup, job_elements, strategies_run,
                   all_jobs, new_jobs, xml, errors, prior, recording, published, prev_ok>>

\* f.write(pretty_xml) and the close
write_file ==
    /\ pc = "opened"
    /\ feed' = Document(xml[1])
    /\ pc' = "done"
    /\ UNCHANGED <<site, existing_links, soup, job_elements, strategies_run,
                   all_jobs, new_jobs, xml, errors, prior, recording, published, prev_ok>>

\* f.write or the close raises OSError
write_raises ==
    /\ pc = "opened"
    /\ feed' \in {Truncated, Partial}
    /\ pc' = "raised"
    /\ errors' = errors \cup {"write"}
    /\ UNCHANGED <<site, existing_links, soup, job_elements, strategies_run,
                   all_jobs, new_jobs, xml, prior, recording, published, prev_ok>>

Next ==
    \/ main_get_existing
    \/ setup_driver_raises
    \/ render_and_locate
    \/ render_raises
    \/ process_candidates
    \/ main_filter
    \/ build_new
    \/ build_raises
    \/ no_new_keep
    \/ no_new_create
    \/ open_file
    \/ write_file
    \/ write_raises

Spec == Init /\ [][Next]_vars

\* the jobs scrape_worldbank_jobs returns for a page
scrape_of(page) == process_all(candidates(locate(page).elements))

\* the pages whose job links carry no surrounding blanks and can be serialized
PlainPages ==
    {page \in Pages :
        LET jobs == scrape_of(page)
        IN  /\ serializable(to_items(jobs))
            /\ \A i \in 1..Len(jobs) : Strip(jobs[i].link) = jobs[i].link}

\* what one run of main() on such a page leaves in the feed when none existed
FeedsOfOneRun == {Document(to_items(scrape_of(page))) : page \in PlainPages}

\* Repeated runs in which the driver, the page load and the file write do not fail,
\* against a site that keeps rendering one page with plain links, from a feed that
\* is absent or was written by one earlier run; the histories are kept.
InitRepeat ==
    /\ feed \in {Absent} \cup FeedsOfOneRun
    /\ \E page \in PlainPages : site = {page}
    /\ pc = "idle"
    /\ existing_links = {}
    /\ soup = <<>>
    /\ job_elements = <<>>
    /\ strategies_run = <<>>
    /\ all_jobs = <<>>
    /\ new_jobs = <<>>
    /\ xml = <<>>
    /\ errors = {}
    /\ prior = Absent
    /\ recording = TRUE
    /\ published = item_links(feed.items)
    /\ prev_ok = FALSE

NextRepeat ==
    \/ main_get_existing
    \/ render_and_locate
    \/ process_candidates
    \/ main_filter
    \/ build_new
    \/ no_new_keep
    \/ no_new_create
    \/ open_file
    \/ write_file

SpecRepeat == InitRepeat /\ [][NextRepeat]_vars

----------------------------------------------------------------------------
(* Properties *)

\* the run is past the filter of main()
AfterFilter == pc \in {"filtered", "built", "opened", "done"}
               \/ (pc = "raised" /\ errors \cap {"serialize", "write"} # {})

\* a run in which no job was judged new
NoNewRun == AfterFilter /\ new_jobs = <<>>

\* the document this run has written to the file, once the write is complete
Wrote == pc = "done" /\ xml # <<>>

Distinct(links) == \A i, j \in 1..Len(links) : links[i] = links[j] => i = j

\* the links the codec is claimed to hold for a feed file, as written in it
prior_links == IF prior.kind = "doc" THEN item_links(prior.items) ELSE {}

\* C1: a link contained in a feed written by an earlier run is never contained in
\* a feed written by a later run.
NeverRepublished == Wrote => item_links(xml[1]) \cap published = {}

\* C2: the items a run writes from scraped jobs are exactly the scraped jobs whose
\* link is not among the item links of the prior feed (none when it is absent or
\* unparseable), in scraped order.
WritesExactlyUnknown ==
    (Wrote /\ new_jobs # <<>>) =>
        feed = Document(to_items(SelectSeq(all_jobs, LAMBDA job : job.link \notin prior_links)))

\* C3: a second run in succession over the same candidate set judges no job new.
SecondRunFindsNothingNew ==
    (prev_ok /\ pc = "filtered" /\ errors = {}) => new_jobs = <<>>

\* C4: the links read back from a document written by generate_rss_feed are
\* exactly the links of the job records written.
RoundTrip ==
    (pc = "scrape" /\ prior.kind = "doc") => existing_links = item_links(prior.items)

AtomicWrite == feed = prior \/ (xml # <<>> /\ feed = Document(xml[1]))

\* the highest-priority strategy with a non-empty result (the last, when none has)
WinnerOf(page) ==
    IF strategy1(page) # <<>> THEN 1
    ELSE IF strategy2(page) # <<>> THEN 2
    ELSE 3

ResultOf(page, n) ==
    IF n = 1 THEN strategy1(page) ELSE IF n = 2 THEN strategy2(page) ELSE strategy3(page)

\* C7: the candidates are those of the highest-priority strategy with a non-empty
\* result and of no other, a strategy is evaluated only when the ones before it
\* gave nothing, at most the first 50 are processed, and nothing at all is no error.
StrictCascade ==
    (pc \in {"located", "scraped"} /\ soup # <<>>) =>
        LET page   == soup[1]
            winner == WinnerOf(page)
            result == ResultOf(page, winner)
            first  == [i \in 1..Min(50, Len(result)) |-> result[i]]
        IN  /\ job_elements = result
            /\ strategies_run = [i \in 1..winner |-> i]
            /\ errors = {}
            /\ pc = "scraped" =>
                /\ Len(all_jobs) <= 50
                /\ all_jobs = Join([i \in 1..Len(first) |-> process_element(first[i])])

\* the second strategy wins although the third finds candidates too
StrictCascadeWitness ==
    /\ pc = "scraped"
    /\ strategies_run = <<1, 2>>
    /\ job_elements # <<>>
    /\ strategy3(soup[1]) # <<>>
    /\ Len(all_jobs) = Len(job_elements)

\* the stoplist of the specification
StopTerms ==
    {<<"s", "e", "a", "r", "c", "h">>, <<"f", "i", "l", "t", "e", "r">>, <<"s", "o", "r", "t">>,
        <<"l", "o", "g", "i", "n">>, <<"s", "i", "g", "n", " ", "i", "n">>, <<"h", "o", "m", "e">>,
        <<"a", "b", "o", "u", "t">>, <<"c", "o", "n", "t", "a", "c", "t">>}

ValidRecord(r) ==
    /\ Len(r.link) >= 1
    /\ Len(r.title) >= 5
    /\ \A term \in StopTerms :
        \A i \in 1..Len(r.title) :
            i + Len(term) - 1 <= Len(r.title) =>
                \E k \in 1..Len(term) : LowerChar(r.title[i + k - 1]) # term[k]

\* the candidate has a link and a title that passes
Eligible(element) ==
    /\ extract_link(element) # <<>>
    /\ ValidRecord([link |-> extract_link(element)[1], title |-> extract_title(element)])

\* C8: every scraped job, and every feed item, has a non-empty link and a title of
\* at least 5 characters holding no stoplist term in any letter case; a candidate
\* that fails is skipped and the candidates after it are still processed.
OnlyValidRecords ==
    /\ \A i \in 1..Len(all_jobs) : ValidRecord(all_jobs[i])
    /\ \A i \in 1..Len(feed.items) : ValidRecord(feed.items[i])
    /\ (pc = "scraped" /\ soup # <<>>) =>
        LET processed == candidates(job_elements)
            eligible  == SelectSeq(processed, Eligible)
        IN  /\ Len(all_jobs) = Len(eligible)
            /\ \A i \in 1..Len(eligible) :
                /\ all_jobs[i].link = extract_link(eligible[i])[1]
                /\ all_jobs[i].title = extract_title(eligible[i])

\* a skipped candidate is followed by one that is kept
OnlyValidRecordsWitness ==
    /\ pc = "scraped"
    /\ Len(job_elements) >= 2
    /\ ~Eligible(job_elements[1])
    /\ Eligible(job_elements[Len(job_elements)])
    /\ Len(all_jobs) >= 1

\* C9: a run with no new job does not raise (a failure of the file system while
\* the file is written apart), leaves an existing feed file as it is, and writes
\* only when there is none and then zero items; and after a run that completes
\* the feed file holds a feed document.
NoNewJobsKeepsFeed ==
    /\ NoNewRun =>
        /\ prior.kind # "absent" => (feed = prior /\ xml = <<>> /\ pc \in {"filtered", "done"})
        /\ xml # <<>> => (prior.kind = "absent" /\ xml[1] = <<>>)
        /\ pc = "raised" => errors \cap {"driver", "serialize"} = {}
        /\ pc = "done" => (feed = prior \/ feed = Document(<<>>))
    /\ pc = "done" => feed.kind = "doc"

\* C10: no document a run builds for the feed holds two items with the same link.
NoDuplicateLinks ==
    xml # <<>> => Distinct([i \in 1..Len(xml[1]) |-> xml[1][i].link])

====
